---- MODULE Spec2Model ----
(***************************************************************************)
(* Model of ce_bench's identifier mapping pipeline:                        *)
(*   - the textual SQLMapper  (src/datasets/leetcode/sql_mapper.py),       *)
(*   - the structural SQLMapper (src/datasets/bird/sql_mapper.py),         *)
(*   - the batch driver process_bird_csv (both files),                     *)
(*   - the schema anonymizer extract_and_map_schema (src/mapping/map.py).  *)
(* SQL text is a sequence of one-character strings, so that the regular    *)
(* expressions of the textual strategy (word boundaries, case folding,     *)
(* quoting) and the parser/generator of the structural strategy act on     *)
(* characters as the code does.                                            *)
(***************************************************************************)
EXTENDS Integers, Sequences, FiniteSets, TLC

VARIABLES
    \* ---- one run of the Identifier Mapper on one statement
    sql_query,          \* the input text
    table_mapping,      \* self.table_mapping (upper-cased keys, insertion order)
    column_mapping,     \* self.column_mapping
    mapped_query,       \* the working copy of _fallback_mapping
    sorted_entries,     \* the sorted list the current for-loop iterates
    pc,                 \* position inside the run
    textual_result,     \* what _fallback_mapping returned
    structural_result,  \* what the structural map_sql_query returned
    \* ---- one run of process_bird_csv
    driver,             \* which file's process_bird_csv runs
    csv,                \* the rows of the file at csv_path
    output_path,        \* the argument: "None", "csv_path" or "other_path"
    out_file,           \* the file at another output path
    df,                 \* the data frame, a sequence of rows
    idx,                \* the row the loop is at
    batch_pc,           \* "loop", "returned" or "raised"
    \* ---- one run of extract_and_map_schema
    parsed,             \* the statements sqlglot.parse returned
    stmt_idx,           \* the statement the outer loop is at
    expr_idx,           \* the expression the inner loop is at
    s_table_mapping,    \* table_mapping of map.py
    s_column_mapping,   \* column_mapping of map.py
    table_counter,
    column_counter,
    mapping_dict,
    dummy_schema,
    schema_pc

mapper_vars == <<sql_query, table_mapping, column_mapping, mapped_query,
                 sorted_entries, pc, textual_result, structural_result>>
batch_vars == <<driver, csv, output_path, out_file, df, idx, batch_pc>>
schema_vars == <<parsed, stmt_idx, expr_idx, s_table_mapping, s_column_mapping,
                 table_counter, column_counter, mapping_dict, dummy_schema, schema_pc>>
vars == <<mapper_vars, batch_vars, schema_vars>>

(***************************************************************************)
(* Bounds of the model.                                                    *)
(***************************************************************************)
MaxEntries == 2
MaxRows == 2
MaxStatements == 2
MaxExpressions == 2

(***************************************************************************)
(* Characters and strings.                                                 *)
(***************************************************************************)
LowerLetters == <<"a","b","c","d","e","f","g","h","i","j","k","l","m",
                  "n","o","p","q","r","s","t","u","v","w","x","y","z">>
UpperLetters == <<"A","B","C","D","E","F","G","H","I","J","K","L","M",
                  "N","O","P","Q","R","S","T","U","V","W","X","Y","Z">>
Digits == <<"0","1","2","3","4","5","6","7","8","9">>

Range(f) == {f[i] : i \in DOMAIN f}

\* Python's None, as a value comparable with texts (no text holds a
\* four-character element).
None == <<"None">>

\* the regular expression class \w
WordChars == Range(LowerLetters) \cup Range(UpperLetters) \cup Range(Digits) \cup {"_"}
IsWordChar(c) == c \in WordChars

\* str.upper() on one character, and on a string
UpperChar(c) ==
    IF c \in Range(LowerLetters)
    THEN UpperLetters[CHOOSE i \in DOMAIN LowerLetters : LowerLetters[i] = c]
    ELSE c
Upper(s) == [i \in 1..Len(s) |-> UpperChar(s[i])]

\* f"{n}" for a natural number
RECURSIVE ToStr(_)
ToStr(n) == IF n < 10 THEN <<Digits[n + 1]>>
            ELSE ToStr(n \div 10) \o <<Digits[(n % 10) + 1]>>

\* the two quote characters of identifiers; the grave accent cannot be written
\* in a string of this language, so a token stands for that one character
Backtick == "GRAVE"
DQuote == "\""

Slice(s, a, b) == IF a > b THEN <<>> ELSE SubSeq(s, a, b)

(***************************************************************************)
(* re.sub with flags: a pattern of the code is a literal, the escaped      *)
(* name, possibly inside quote characters, with or without a word boundary *)
(* on both sides.                                                          *)
(***************************************************************************)
WordPattern(name) == [lit |-> name, wb |-> TRUE]
BacktickPattern(name) == [lit |-> <<Backtick>> \o name \o <<Backtick>>, wb |-> FALSE]
DoubleQuotePattern(name) == [lit |-> <<DQuote>> \o name \o <<DQuote>>, wb |-> FALSE]

\* \b at position p: between text[p-1] and text[p]
IsWordAt(text, k) == k >= 1 /\ k <= Len(text) /\ IsWordChar(text[k])
WordBoundary(text, p) == IsWordAt(text, p - 1) # IsWordAt(text, p)

MatchAt(pattern, text, i, ignorecase) ==
    /\ i + Len(pattern.lit) - 1 <= Len(text)
    /\ \A k \in 1..Len(pattern.lit) :
          IF ignorecase
          THEN UpperChar(text[i + k - 1]) = UpperChar(pattern.lit[k])
          ELSE text[i + k - 1] = pattern.lit[k]
    /\ pattern.wb => /\ WordBoundary(text, i)
                     /\ WordBoundary(text, i + Len(pattern.lit))

\* leftmost, non-overlapping matches, each replaced by repl
RECURSIVE ReSubFrom(_, _, _, _, _)
ReSubFrom(pattern, repl, text, i, ignorecase) ==
    IF i > Len(text) THEN <<>>
    ELSE IF MatchAt(pattern, text, i, ignorecase)
         THEN repl \o ReSubFrom(pattern, repl, text, i + Len(pattern.lit), ignorecase)
         ELSE <<text[i]>> \o ReSubFrom(pattern, repl, text, i + 1, ignorecase)

ReSub(pattern, repl, text, ignorecase) == ReSubFrom(pattern, repl, text, 1, ignorecase)

\* does the pattern match anywhere in the text
Occurs(pattern, text, ignorecase) ==
    \E i \in 1..Len(text) : MatchAt(pattern, text, i, ignorecase)

(***************************************************************************)
(* Mappings: a Python dict is a sequence of <<key, value>> pairs in        *)
(* insertion order, with no key twice.                                     *)
(***************************************************************************)
Keys(mapping) == {mapping[i][1] : i \in DOMAIN mapping}
Values(mapping) == {mapping[i][2] : i \in DOMAIN mapping}
Get(mapping, key) == mapping[CHOOSE i \in DOMAIN mapping : mapping[i][1] = key][2]

\* d[key] = value
Put(mapping, key, value) ==
    IF key \in Keys(mapping)
    THEN [i \in DOMAIN mapping |->
            IF mapping[i][1] = key THEN <<key, value>> ELSE mapping[i]]
    ELSE Append(mapping, <<key, value>>)

\* {k.upper(): v for k, v in mapping.items()}
RECURSIVE UpperKeysFrom(_, _, _)
UpperKeysFrom(raw, i, acc) ==
    IF i > Len(raw) THEN acc
    ELSE UpperKeysFrom(raw, i + 1, Put(acc, Upper(raw[i][1]), raw[i][2]))
UpperKeys(raw) == UpperKeysFrom(raw, 1, <<>>)

\* sorted(mapping.items(), key=lambda x: len(x[0]), reverse=True): stable,
\* so entries of equal key length keep their insertion order
RECURSIVE InsertByLen(_, _)
InsertByLen(sorted, e) ==
    IF sorted = <<>> THEN <<e>>
    ELSE IF Len(Head(sorted)[1]) >= Len(e[1])
         THEN <<Head(sorted)>> \o InsertByLen(Tail(sorted), e)
         ELSE <<e>> \o sorted
RECURSIVE SortFrom(_, _, _)
SortFrom(items, i, acc) ==
    IF i > Len(items) THEN acc
    ELSE SortFrom(items, i + 1, InsertByLen(acc, items[i]))
SortedByLenDesc(items) == SortFrom(items, 1, <<>>)

(***************************************************************************)
(* Textual strategy: leetcode SQLMapper._fallback_mapping.                 *)
(***************************************************************************)
\* patterns without the word boundaries around the bare name
patterns_unbounded(original) ==
    <<[lit |-> original, wb |-> FALSE], BacktickPattern(original),
      DoubleQuotePattern(original)>>

\* the patterns list of one entry, in the order the code tries them
patterns(original) ==
    <<WordPattern(original), BacktickPattern(original), DoubleQuotePattern(original)>>

RECURSIVE SubPatternsFrom(_, _, _, _)
SubPatternsFrom(pats, replacement, text, i) ==
    IF i > Len(pats) THEN text
    ELSE SubPatternsFrom(pats, replacement,
                         ReSub(pats[i], replacement, text, TRUE), i + 1)

\* the body of one iteration of "for original, mapped in sorted_...": the
\* inner loop over the patterns, each re.sub acting on the working copy
ApplyEntry(text, entry) == SubPatternsFrom(patterns(entry[1]), entry[2], text, 1)

RECURSIVE ApplyEntriesFrom(_, _, _)
ApplyEntriesFrom(text, entries, i) ==
    IF i > Len(entries) THEN text
    ELSE ApplyEntriesFrom(ApplyEntry(text, entries[i]), entries, i + 1)
ApplyEntries(text, entries) == ApplyEntriesFrom(text, entries, 1)

\* the whole call; re.sub on a value that is no string raises TypeError,
\* which the except clause turns into None
_fallback_mapping(query, tmap, cmap) ==
    IF query = None THEN None
    ELSE ApplyEntries(ApplyEntries(query, SortedByLenDesc(tmap)),
                      SortedByLenDesc(cmap))

(***************************************************************************)
(* Structural strategy: bird SQLMapper.map_sql_query.  The parser and the  *)
(* generator are sqlglot's; they are modelled for the statements           *)
(*     SELECT [q.]c [[AS] a] FROM t [[AS] a]                               *)
(* with bare or quoted identifiers; every other text is a parse error.     *)
(***************************************************************************)
KwSelect == <<"S","E","L","E","C","T">>
KwFrom == <<"F","R","O","M">>
KwAs == <<"A","S">>
Keywords == {KwSelect, KwFrom, KwAs}
Space == " "
QuoteChars == {DQuote, Backtick}

\* the tokenizer: blanks separate tokens, except inside a quoted identifier
RECURSIVE TokensFrom(_, _, _, _)
TokensFrom(text, i, cur, inq) ==
    IF i > Len(text) THEN (IF cur = <<>> THEN <<>> ELSE <<cur>>)
    ELSE LET c == text[i] IN
         IF inq # ""
         THEN TokensFrom(text, i + 1, Append(cur, c), IF c = inq THEN "" ELSE inq)
         ELSE IF c \in QuoteChars
              THEN TokensFrom(text, i + 1, Append(cur, c), c)
              ELSE IF c = Space
                   THEN (IF cur = <<>> THEN <<>> ELSE <<cur>>)
                        \o TokensFrom(text, i + 1, <<>>, "")
                   ELSE TokensFrom(text, i + 1, Append(cur, c), "")
Tokens(text) == TokensFrom(text, 1, <<>>, "")

\* sqlglot.expressions.Identifier
Identifier(this, quoted) == [name |-> this, quoted |-> quoted]
NoIdentifier == Identifier(<<>>, FALSE)
BadIdentifier == Identifier(None, FALSE)

ParseIdentifier(tok) ==
    IF /\ Len(tok) >= 3
       /\ tok[1] \in QuoteChars
       /\ tok[Len(tok)] = tok[1]
       /\ \A k \in 2..(Len(tok) - 1) : tok[k] \notin QuoteChars
    THEN Identifier(Slice(tok, 2, Len(tok) - 1), TRUE)
    ELSE IF /\ tok # <<>>
            /\ \A k \in 1..Len(tok) : IsWordChar(tok[k])
            /\ tok[1] \notin Range(Digits)
            /\ Upper(tok) \notin Keywords
         THEN Identifier(tok, FALSE)
         ELSE BadIdentifier

\* the dots of a token that stand outside quotes
DotsOf(tok) ==
    {i \in 1..Len(tok) :
        /\ tok[i] = "."
        /\ Cardinality({k \in 1..(i - 1) : tok[k] \in QuoteChars}) % 2 = 0}

\* x, x a, x AS a: <<the token of x, the alias identifier>>
ParseAliased(part) ==
    IF Len(part) = 1 THEN [ok |-> TRUE, tok |-> part[1], alias |-> NoIdentifier]
    ELSE IF Len(part) = 2 /\ ParseIdentifier(part[2]) # BadIdentifier
         THEN [ok |-> TRUE, tok |-> part[1], alias |-> ParseIdentifier(part[2])]
    ELSE IF Len(part) = 3 /\ Upper(part[2]) = KwAs
            /\ ParseIdentifier(part[3]) # BadIdentifier
         THEN [ok |-> TRUE, tok |-> part[1], alias |-> ParseIdentifier(part[3])]
    ELSE [ok |-> FALSE, tok |-> <<>>, alias |-> NoIdentifier]

ParseError == [ok |-> FALSE]

\* parse_one(sql_query, dialect="sqlite"): the tree, or ParseError where
\* sqlglot raises
parse_one(text) ==
    IF text = None THEN ParseError
    ELSE
    LET toks == Tokens(text)
        froms == {i \in 1..Len(toks) : Upper(toks[i]) = KwFrom}
    IN  IF ~(Len(toks) >= 4 /\ Upper(toks[1]) = KwSelect /\ Cardinality(froms) = 1)
        THEN ParseError
        ELSE
        LET f == CHOOSE i \in froms : TRUE
            sel == ParseAliased(Slice(toks, 2, f - 1))
            frm == ParseAliased(Slice(toks, f + 1, Len(toks)))
        IN  IF ~(sel.ok /\ frm.ok) THEN ParseError
            ELSE
            LET dots == DotsOf(sel.tok)
                d == IF dots = {} THEN 0 ELSE CHOOSE i \in dots : TRUE
                qual == IF d = 0 THEN NoIdentifier
                        ELSE ParseIdentifier(Slice(sel.tok, 1, d - 1))
                col == ParseIdentifier(Slice(sel.tok, d + 1, Len(sel.tok)))
                tbl == ParseIdentifier(frm.tok)
            IN  IF \/ Cardinality(dots) > 1
                   \/ BadIdentifier \in {qual, col, tbl}
                THEN ParseError
                ELSE [ok |-> TRUE,
                      column |-> [table |-> qual, this |-> col, alias |-> sel.alias],
                      table |-> [this |-> tbl, alias |-> frm.alias]]

\* the sqlite generator, pretty=False
IdentifierSql(id) == IF id.quoted THEN <<DQuote>> \o id.name \o <<DQuote>> ELSE id.name
AliasSql(alias) ==
    IF alias = NoIdentifier THEN <<>> ELSE <<Space>> \o KwAs \o <<Space>> \o IdentifierSql(alias)
sql(tree) ==
    KwSelect \o <<Space>>
    \o (IF tree.column.table = NoIdentifier THEN <<>>
        ELSE IdentifierSql(tree.column.table) \o <<".">>)
    \o IdentifierSql(tree.column.this) \o AliasSql(tree.column.alias)
    \o <<Space>> \o KwFrom \o <<Space>>
    \o IdentifierSql(tree.table.this) \o AliasSql(tree.table.alias)

\* transform_table looking the name up as written, without .upper()
transform_table_as_written(tree, tmap) ==
    LET original_name == tree.table.this.name IN
    IF original_name \in Keys(tmap)
    THEN [tree EXCEPT !.table.this = Identifier(Get(tmap, original_name), FALSE)]
    ELSE tree

\* def transform_table(node), applied to the Table node of the tree
transform_table(tree, tmap) ==
    LET original_name == Upper(tree.table.this.name) IN
    IF original_name \in Keys(tmap)
    THEN [tree EXCEPT !.table.this = Identifier(Get(tmap, original_name), FALSE)]
    ELSE tree

\* transform_column looking the qualifier up in the column mapping
transform_column_wrong_dict(tree, tmap, cmap) ==
    LET original_table_name == Upper(tree.column.table.name)
        original_name == Upper(tree.column.this.name)
        t1 == IF /\ tree.column.table.name # <<>>
                 /\ original_table_name \in Keys(cmap)
              THEN [tree EXCEPT !.column.table =
                        Identifier(Get(cmap, original_table_name), FALSE)]
              ELSE tree
    IN  IF original_name \in Keys(cmap)
        THEN [t1 EXCEPT !.column.this = Identifier(Get(cmap, original_name), FALSE)]
        ELSE t1

\* def transform_column(node), applied to the Column node of the tree
transform_column(tree, tmap, cmap) ==
    LET original_table_name == Upper(tree.column.table.name)
        original_name == Upper(tree.column.this.name)
        t1 == IF /\ tree.column.table.name # <<>>
                 /\ original_table_name \in Keys(tmap)
              THEN [tree EXCEPT !.column.table =
                        Identifier(Get(tmap, original_table_name), FALSE)]
              ELSE tree
    IN  IF original_name \in Keys(cmap)
        THEN [t1 EXCEPT !.column.this = Identifier(Get(cmap, original_name), FALSE)]
        ELSE t1

\* the tree after both passes
transformed(tree, tmap, cmap) == transform_column(transform_table(tree, tmap), tmap, cmap)

\* bird SQLMapper.map_sql_query(sql_query, pretty=False)
map_sql_query(query, tmap, cmap) ==
    LET parsed_tree == parse_one(query) IN
    IF ~parsed_tree.ok THEN None
    ELSE sql(transformed(parsed_tree, tmap, cmap))

(***************************************************************************)
(* One run of the Identifier Mapper: the inputs.                           *)
(***************************************************************************)
SeqsUpTo(S, n) == UNION {[1..k -> S] : k \in 0..n}

\* original names as the caller writes them, and replacement names
RawNames == {<<"A">>, <<"a","b">>, <<"A"," ","B">>}
ReplacementNames == {<<"x","1">>, <<"x","2">>, <<"A","B">>, <<"A"," ","B">>}

\* a JSON object of at most n entries: no key twice
RawMappings(n) ==
    {m \in SeqsUpTo(RawNames \X ReplacementNames, n) :
        \A i, j \in DOMAIN m : i # j => m[i][1] # m[j][1]}

\* the two raw mappings a mapper is constructed from: at most n entries in all
RawMappingPairs(n) ==
    {p \in RawMappings(n) \X RawMappings(n) : Len(p[1]) + Len(p[2]) <= n}

TableTexts == {<<"a">>, <<"T">>}
ColumnTexts == {<<"a">>, <<"A","B">>, <<DQuote,"A"," ","B",DQuote>>}
QualifierTexts == {<<>>, <<"a",".">>}

SelectFrom(q, c, t) ==
    KwSelect \o <<Space>> \o q \o c \o <<Space>> \o KwFrom \o <<Space>> \o t

\* a statement sqlglot rejects, one it accepts and writes differently
\* (keyword case, blanks), one with a grave-accent quoted identifier
InvalidQuery == KwSelect \o <<Space, "(">>
LooseQuery == <<"s","e","l","e","c","t",Space,Space,"a",Space,"f","r","o","m",Space,"T">>
BacktickQuery == SelectFrom(<<>>, <<Backtick,"a",Backtick>>, <<"T">>)

Queries ==
    {SelectFrom(q, c, t) : q \in QualifierTexts, c \in ColumnTexts, t \in TableTexts}
    \cup {InvalidQuery, LooseQuery, BacktickQuery}

(***************************************************************************)
(* Idle values of the three runs, for the specifications that do not run   *)
(* them.                                                                   *)
(***************************************************************************)
MapperIdle ==
    /\ sql_query = None /\ table_mapping = <<>> /\ column_mapping = <<>>
    /\ mapped_query = None /\ sorted_entries = <<>> /\ pc = "idle"
    /\ textual_result = None /\ structural_result = None
BatchIdle ==
    /\ driver = "none" /\ csv = <<>> /\ df = <<>> /\ idx = 0 /\ batch_pc = "idle"
    /\ output_path = "None" /\ out_file = [written |-> FALSE, rows |-> <<>>]
SchemaIdle ==
    /\ parsed = <<>> /\ stmt_idx = 0 /\ expr_idx = 0
    /\ s_table_mapping = <<>> /\ s_column_mapping = <<>>
    /\ table_counter = 0 /\ column_counter = 0
    /\ mapping_dict = <<>> /\ dummy_schema = None /\ schema_pc = "idle"

(***************************************************************************)
(* SpecMapper: SQLMapper(table_mapping, column_mapping) is constructed,    *)
(* then one statement is mapped, by the textual strategy (one step per     *)
(* loop iteration of _fallback_mapping) or by the structural one.          *)
(***************************************************************************)
MapperInit ==
    /\ sql_query \in Queries
    /\ \E raw \in RawMappingPairs(MaxEntries) :
          /\ table_mapping = UpperKeys(raw[1])
          /\ column_mapping = UpperKeys(raw[2])
    /\ mapped_query = None
    /\ sorted_entries = <<>>
    /\ pc = "start"
    /\ textual_result = None
    /\ structural_result = None
    /\ BatchIdle /\ SchemaIdle

\* mapped_query = sql_query; sorted_tables = sorted(...)
FallbackStart ==
    /\ pc = "start"
    /\ mapped_query' = sql_query
    /\ sorted_entries' = SortedByLenDesc(table_mapping)
    /\ pc' = "tables"
    /\ UNCHANGED <<sql_query, table_mapping, column_mapping,
                   textual_result, structural_result>>
    /\ UNCHANGED <<batch_vars, schema_vars>>

\* one iteration of the loop over sorted_tables
FallbackTableEntry ==
    /\ pc = "tables" /\ sorted_entries # <<>>
    /\ mapped_query' = ApplyEntry(mapped_query, Head(sorted_entries))
    /\ sorted_entries' = Tail(sorted_entries)
    /\ UNCHANGED <<sql_query, table_mapping, column_mapping, pc,
                   textual_result, structural_result>>
    /\ UNCHANGED <<batch_vars, schema_vars>>

\* the table loop is over: sorted_columns = sorted(...)
FallbackColumns ==
    /\ pc = "tables" /\ sorted_entries = <<>>
    /\ sorted_entries' = SortedByLenDesc(column_mapping)
    /\ pc' = "columns"
    /\ UNCHANGED <<sql_query, table_mapping, column_mapping, mapped_query,
                   textual_result, structural_result>>
    /\ UNCHANGED <<batch_vars, schema_vars>>

\* the column loop matching against sql_query, the text as it came in
FallbackColumnEntry_on_input ==
    /\ pc = "columns" /\ sorted_entries # <<>>
    /\ mapped_query' = ApplyEntry(sql_query, Head(sorted_entries))
    /\ sorted_entries' = Tail(sorted_entries)
    /\ UNCHANGED <<sql_query, table_mapping, column_mapping, pc,
                   textual_result, structural_result>>
    /\ UNCHANGED <<batch_vars, schema_vars>>

\* one iteration of the loop over sorted_columns
FallbackColumnEntry ==
    /\ pc = "columns" /\ sorted_entries # <<>>
    /\ mapped_query' = ApplyEntry(mapped_query, Head(sorted_entries))
    /\ sorted_entries' = Tail(sorted_entries)
    /\ UNCHANGED <<sql_query, table_mapping, column_mapping, pc,
                   textual_result, structural_result>>
    /\ UNCHANGED <<batch_vars, schema_vars>>

\* return mapped_query
FallbackReturn ==
    /\ pc = "columns" /\ sorted_entries = <<>>
    /\ textual_result' = mapped_query
    /\ pc' = "textual_done"
    /\ UNCHANGED <<sql_query, table_mapping, column_mapping, mapped_query,
                   sorted_entries, structural_result>>
    /\ UNCHANGED <<batch_vars, schema_vars>>

\* the structural map_sql_query, as one call
StructuralMap ==
    /\ pc = "start"
    /\ structural_result' = map_sql_query(sql_query, table_mapping, column_mapping)
    /\ pc' = "structural_done"
    /\ UNCHANGED <<sql_query, table_mapping, column_mapping, mapped_query,
                   sorted_entries, textual_result>>
    /\ UNCHANGED <<batch_vars, schema_vars>>

MapperNext ==
    \/ FallbackStart
    \/ FallbackTableEntry
    \/ FallbackColumns
    \/ FallbackColumnEntry
    \/ FallbackReturn
    \/ StructuralMap

SpecMapper == MapperInit /\ [][MapperNext]_vars

(***************************************************************************)
(* SpecBatch: process_bird_csv of either file.  A cell of the data frame   *)
(* is a text, or None for NaN; a dbid cell is a string or an integer, as   *)
(* read_csv types it.  A row is a function of its column names.            *)
(***************************************************************************)
StrId(v) == [t |-> "str", v |-> v]
IntId(n) == [t |-> "int", v |-> n]

\* str(dbid)
Str(dbid) == IF dbid.t = "int" THEN ToStr(dbid.v) ELSE dbid.v

\* json.load(schemas_path): database id -> record.  The record of "bad"
\* has no "mapping" member.
Db1 == <<"d","b","1">>
Db7 == <<"7">>
DbBad == <<"b","a","d">>
DbAbsent == <<"z","z">>
schemas_data ==
    (Db1 :> [mapping |-> [tables |-> << <<<<"T">>, <<"t","1">>>> >>,
                          columns |-> << <<<<"a">>, <<"c","1">>>> >>]])
    @@ (Db7 :> [mapping |-> [tables |-> << <<<<"T">>, <<"t","2">>>> >>,
                             columns |-> <<>>]])
    @@ (DbBad :> [schema |-> <<>>])

DbIds == {StrId(Db1), IntId(7), StrId(DbBad), StrId(DbAbsent)}
StaleText == <<"o","l","d">>

\* the rows a file may hold; with_mapped: it has the q1_mapped and
\* q2_mapped columns already
CsvRows(with_mapped) ==
    IF with_mapped
    THEN [dbid : DbIds, q1 : {None, LooseQuery, InvalidQuery}, q2 : {None, LooseQuery},
          q1_mapped : {StaleText}, q2_mapped : {StaleText}]
    ELSE [dbid : DbIds, q1 : {None, LooseQuery, InvalidQuery}, q2 : {None, LooseQuery}]

\* the key the driver looks up, and whether it finds it
\*   leetcode: dbid_str = str(dbid); if dbid_str in schemas_data
\*   bird:     if dbid in schemas_data  (an integer is no key of a JSON object)
in_schemas_data(drv, dbid) ==
    IF drv = "leetcode" THEN Str(dbid) \in DOMAIN schemas_data
    ELSE dbid.t = "str" /\ dbid.v \in DOMAIN schemas_data
lookup_key(drv, dbid) == IF drv = "leetcode" THEN Str(dbid) ELSE dbid.v

\* schemas_data[key]["mapping"]["tables"] and ["columns"] raise KeyError
\* when a member is missing
raises_KeyError(record) ==
    IF "mapping" \notin DOMAIN record THEN TRUE
    ELSE IF "tables" \notin DOMAIN record.mapping THEN TRUE
    ELSE "columns" \notin DOMAIN record.mapping

\* SQLMapper({}, {})
empty_mapper == [table_mapping |-> <<>>, column_mapping |-> <<>>]

\* SQLMapper(table_mapping, column_mapping), or the empty mapper
mapper_for(drv, dbid) ==
    IF in_schemas_data(drv, dbid)
    THEN [table_mapping |-> UpperKeys(schemas_data[lookup_key(drv, dbid)].mapping.tables),
          column_mapping |-> UpperKeys(schemas_data[lookup_key(drv, dbid)].mapping.columns)]
    ELSE empty_mapper

\* mapper.map_sql_query(q, pretty=False) of the driver's own SQLMapper
run_mapper(drv, mapper, q) ==
    IF drv = "leetcode"
    THEN _fallback_mapping(q, mapper.table_mapping, mapper.column_mapping)
    ELSE map_sql_query(q, mapper.table_mapping, mapper.column_mapping)

\* "if q1:" of a cell that went through pd.notna
truthy(q) == q # None /\ q # <<>>

\* the cell after "if q: df.at[idx, col] = mapper.map_sql_query(q, ...)"
cell_after(drv, mapper, q, old) ==
    IF truthy(q) THEN run_mapper(drv, mapper, q) ELSE old

\* read_csv types a column as a whole: the dbid cells of one file are all
\* integers or all strings
one_dtype(rows) == \A i \in DOMAIN rows, j \in DOMAIN rows : rows[i].dbid.t = rows[j].dbid.t

\* output_path: None (the default), the file that was read (as both
\* __main__ blocks pass it), or another file
OutputPaths == {"None", "csv_path", "other_path"}

\* df.to_csv(output_path, index=False): every column of the frame; a
\* missing value and an empty text are both written as an empty field
to_csv(frame) ==
    [i \in DOMAIN frame |->
        [c \in DOMAIN frame[i] |->
            IF c # "dbid" /\ frame[i][c] = <<>> THEN None ELSE frame[i][c]]]

BatchInit ==
    /\ driver \in {"bird", "leetcode"}
    /\ \E with_mapped \in BOOLEAN : csv \in SeqsUpTo(CsvRows(with_mapped), MaxRows)
    /\ one_dtype(csv)
    /\ output_path \in OutputPaths
    /\ out_file = [written |-> FALSE, rows |-> <<>>]
    /\ df = <<>>
    /\ idx = 0
    /\ batch_pc = "start"
    /\ MapperIdle /\ SchemaIdle

\* df = pd.read_csv(csv_path); the two "if ... not in df.columns" statements
ReadCsv ==
    /\ batch_pc = "start"
    /\ df' = [i \in DOMAIN csv |->
                [c \in DOMAIN csv[i] \cup {"q1_mapped", "q2_mapped"} |->
                    IF c \in DOMAIN csv[i] THEN csv[i][c] ELSE None]]
    /\ idx' = 1
    /\ batch_pc' = "loop"
    /\ UNCHANGED <<driver, csv, output_path, out_file>>
    /\ UNCHANGED <<mapper_vars, schema_vars>>

\* one iteration of "for idx, row in df.iterrows()" that runs to its end
ProcessRow ==
    /\ batch_pc = "loop" /\ idx <= Len(df)
    /\ LET row == df[idx] IN
       /\ ~(in_schemas_data(driver, row.dbid)
            /\ raises_KeyError(schemas_data[lookup_key(driver, row.dbid)]))
       /\ LET mapper == mapper_for(driver, row.dbid) IN
          df' = [df EXCEPT ![idx] =
                    [row EXCEPT !.q1_mapped = cell_after(driver, mapper, row.q1, @),
                                !.q2_mapped = cell_after(driver, mapper, row.q2, @)]]
    /\ idx' = idx + 1
    /\ UNCHANGED <<driver, csv, output_path, out_file, batch_pc>>
    /\ UNCHANGED <<mapper_vars, schema_vars>>

\* the iteration in which the record of the row's database raises: the
\* exception leaves the loop and process_bird_csv
ProcessRowRaises ==
    /\ batch_pc = "loop" /\ idx <= Len(df)
    /\ in_schemas_data(driver, df[idx].dbid)
    /\ raises_KeyError(schemas_data[lookup_key(driver, df[idx].dbid)])
    /\ batch_pc' = "raised"
    /\ UNCHANGED <<driver, csv, output_path, out_file, df, idx>>
    /\ UNCHANGED <<mapper_vars, schema_vars>>

\* after the loop: "if output_path: df.to_csv(output_path, index=False)",
\* then return df
BatchReturn ==
    /\ batch_pc = "loop" /\ idx > Len(df)
    /\ csv' = IF output_path = "csv_path" THEN to_csv(df) ELSE csv
    /\ out_file' = IF output_path = "other_path"
                   THEN [written |-> TRUE, rows |-> to_csv(df)] ELSE out_file
    /\ batch_pc' = "returned"
    /\ UNCHANGED <<driver, output_path, df, idx>>
    /\ UNCHANGED <<mapper_vars, schema_vars>>

BatchNext ==
    \/ ReadCsv
    \/ ProcessRow
    \/ ProcessRowRaises
    \/ BatchReturn

SpecBatch == BatchInit /\ [][BatchNext]_vars

(***************************************************************************)
(* SpecSchema: extract_and_map_schema.  sqlglot.parse gives the list of    *)
(* statements; a statement is CREATE TABLE (kind "TABLE") with its column  *)
(* definitions and constraints, or something else (kind "INDEX").          *)
(***************************************************************************)
SchemaTableNames == {<<"A">>, <<"a">>}
SchemaExpressions ==
    [kind : {"ColumnDef"}, name : {<<"A">>, <<"a">>, <<"C">>}]
    \cup [kind : {"PrimaryKey"}, name : {<<"A">>}]
SchemaStatements ==
    [kind : {"TABLE"}, name : SchemaTableNames,
     expressions : SeqsUpTo(SchemaExpressions, MaxExpressions)]
    \cup [kind : {"INDEX"}, name : {<<"A">>}, expressions : {<<>>}]
Schemas == SeqsUpTo(SchemaStatements, MaxStatements)

\* schema_sql, the text the statements were parsed from
KwCreateTable == <<"C","R","E","A","T","E",Space,"T","A","B","L","E",Space>>
KwCreateIndex == <<"C","R","E","A","T","E",Space,"I","N","D","E","X",Space,"i",Space,"O","N",Space>>
KwInt == <<Space,"I","N","T">>
KwPrimaryKey == <<"P","R","I","M","A","R","Y",Space,"K","E","Y",Space>>
ExpressionSql(e) ==
    IF e.kind = "ColumnDef" THEN e.name \o KwInt
    ELSE KwPrimaryKey \o <<"(">> \o e.name \o <<")">>
RECURSIVE JoinSql(_, _)
JoinSql(exprs, i) ==
    IF i > Len(exprs) THEN <<>>
    ELSE (IF i > 1 THEN <<",", Space>> ELSE <<>>) \o ExpressionSql(exprs[i])
         \o JoinSql(exprs, i + 1)
StatementSql(st) ==
    IF st.kind = "TABLE"
    THEN KwCreateTable \o st.name \o <<Space, "(">> \o JoinSql(st.expressions, 1) \o <<")", ";">>
    ELSE KwCreateIndex \o st.name \o <<";">>
RECURSIVE SchemaSqlFrom(_, _)
SchemaSqlFrom(stmts, i) ==
    IF i > Len(stmts) THEN <<>>
    ELSE (IF i > 1 THEN <<Space>> ELSE <<>>) \o StatementSql(stmts[i])
         \o SchemaSqlFrom(stmts, i + 1)
schema_sql(stmts) == SchemaSqlFrom(stmts, 1)

\* f"t{table_counter}", f"c{column_counter}"
dummy_table(n) == <<"t">> \o ToStr(n)
dummy_column(n) == <<"c">> \o ToStr(n)

\* {**table_mapping, **column_mapping}
RECURSIVE MergeFrom(_, _, _)
MergeFrom(acc, other, i) ==
    IF i > Len(other) THEN acc
    ELSE MergeFrom(Put(acc, other[i][1], other[i][2]), other, i + 1)
Merge(first, second) == MergeFrom(first, second, 1)

\* the loop "for original, dummy in sorted(...): dummy_schema = re.sub(...)"
\* with the case-sensitive pattern \b original \b
RECURSIVE SubNamesFrom(_, _, _)
SubNamesFrom(text, entries, i) ==
    IF i > Len(entries) THEN text
    ELSE SubNamesFrom(ReSub(WordPattern(entries[i][1]), entries[i][2], text, FALSE),
                      entries, i + 1)
SubNames(text, entries) == SubNamesFrom(text, entries, 1)

SchemaInit ==
    /\ parsed \in Schemas
    /\ stmt_idx = 0 /\ expr_idx = 0
    /\ s_table_mapping = <<>> /\ s_column_mapping = <<>>
    /\ table_counter = 0 /\ column_counter = 0
    /\ mapping_dict = <<>> /\ dummy_schema = None
    /\ schema_pc = "called"
    /\ MapperIdle /\ BatchIdle

\* the statements before the loop: empty mappings, both counters at 1
AnonymizeBegin ==
    /\ schema_pc = "called"
    /\ s_table_mapping' = <<>> /\ s_column_mapping' = <<>>
    /\ table_counter' = 1 /\ column_counter' = 1
    /\ stmt_idx' = 1 /\ expr_idx' = 0
    /\ schema_pc' = "scan"
    /\ UNCHANGED <<parsed, mapping_dict, dummy_schema>>
    /\ UNCHANGED <<mapper_vars, batch_vars>>

\* ScanStatement with a column counter that starts again in every table
ScanStatement_counter_per_table ==
    /\ schema_pc = "scan" /\ stmt_idx <= Len(parsed) /\ expr_idx = 0
    /\ LET statement == parsed[stmt_idx] IN
       IF statement.kind = "TABLE"
       THEN /\ IF statement.name # <<>> /\ statement.name \notin Keys(s_table_mapping)
               THEN /\ s_table_mapping' =
                          Put(s_table_mapping, statement.name, dummy_table(table_counter))
                    /\ table_counter' = table_counter + 1
               ELSE UNCHANGED <<s_table_mapping, table_counter>>
            /\ column_counter' = 1
            /\ IF statement.expressions # <<>>
               THEN stmt_idx' = stmt_idx /\ expr_idx' = 1
               ELSE stmt_idx' = stmt_idx + 1 /\ expr_idx' = 0
       ELSE /\ stmt_idx' = stmt_idx + 1
            /\ UNCHANGED <<s_table_mapping, table_counter, column_counter, expr_idx>>
    /\ UNCHANGED <<parsed, s_column_mapping, mapping_dict, dummy_schema, schema_pc>>
    /\ UNCHANGED <<mapper_vars, batch_vars>>

\* one iteration of "for statement in parsed", up to the loop over the
\* expressions: the kind test and the table name
ScanStatement ==
    /\ schema_pc = "scan" /\ stmt_idx <= Len(parsed) /\ expr_idx = 0
    /\ LET statement == parsed[stmt_idx] IN
       IF statement.kind = "TABLE"
       THEN /\ IF statement.name # <<>> /\ statement.name \notin Keys(s_table_mapping)
               THEN /\ s_table_mapping' =
                          Put(s_table_mapping, statement.name, dummy_table(table_counter))
                    /\ table_counter' = table_counter + 1
               ELSE UNCHANGED <<s_table_mapping, table_counter>>
            /\ IF statement.expressions # <<>>
               THEN stmt_idx' = stmt_idx /\ expr_idx' = 1
               ELSE stmt_idx' = stmt_idx + 1 /\ expr_idx' = 0
       ELSE /\ stmt_idx' = stmt_idx + 1
            /\ UNCHANGED <<s_table_mapping, table_counter, expr_idx>>
    /\ UNCHANGED <<parsed, s_column_mapping, column_counter, mapping_dict,
                   dummy_schema, schema_pc>>
    /\ UNCHANGED <<mapper_vars, batch_vars>>

\* ScanExpression with a counter that advances on every column definition
ScanExpression_always_advances ==
    /\ schema_pc = "scan" /\ stmt_idx <= Len(parsed) /\ expr_idx >= 1
    /\ LET expr == parsed[stmt_idx].expressions[expr_idx] IN
       IF expr.kind = "ColumnDef" /\ expr.name # <<>>
       THEN /\ s_column_mapping' =
                  IF expr.name \in Keys(s_column_mapping) THEN s_column_mapping
                  ELSE Put(s_column_mapping, expr.name, dummy_column(column_counter))
            /\ column_counter' = column_counter + 1
       ELSE UNCHANGED <<s_column_mapping, column_counter>>
    /\ IF expr_idx < Len(parsed[stmt_idx].expressions)
       THEN stmt_idx' = stmt_idx /\ expr_idx' = expr_idx + 1
       ELSE stmt_idx' = stmt_idx + 1 /\ expr_idx' = 0
    /\ UNCHANGED <<parsed, s_table_mapping, table_counter, mapping_dict,
                   dummy_schema, schema_pc>>
    /\ UNCHANGED <<mapper_vars, batch_vars>>

\* one iteration of "for expr in statement.this.expressions"
ScanExpression ==
    /\ schema_pc = "scan" /\ stmt_idx <= Len(parsed) /\ expr_idx >= 1
    /\ LET expr == parsed[stmt_idx].expressions[expr_idx] IN
       IF /\ expr.kind = "ColumnDef"
          /\ expr.name # <<>>
          /\ expr.name \notin Keys(s_column_mapping)
       THEN /\ s_column_mapping' =
                  Put(s_column_mapping, expr.name, dummy_column(column_counter))
            /\ column_counter' = column_counter + 1
       ELSE UNCHANGED <<s_column_mapping, column_counter>>
    /\ IF expr_idx < Len(parsed[stmt_idx].expressions)
       THEN stmt_idx' = stmt_idx /\ expr_idx' = expr_idx + 1
       ELSE stmt_idx' = stmt_idx + 1 /\ expr_idx' = 0
    /\ UNCHANGED <<parsed, s_table_mapping, table_counter, mapping_dict,
                   dummy_schema, schema_pc>>
    /\ UNCHANGED <<mapper_vars, batch_vars>>

\* after the loop: the merged mapping, the rewritten schema text, return
AnonymizeReturn ==
    /\ schema_pc = "scan" /\ stmt_idx > Len(parsed)
    /\ mapping_dict' = Merge(s_table_mapping, s_column_mapping)
    /\ dummy_schema' = SubNames(SubNames(schema_sql(parsed),
                                         SortedByLenDesc(s_table_mapping)),
                                SortedByLenDesc(s_column_mapping))
    /\ schema_pc' = "returned"
    /\ UNCHANGED <<parsed, stmt_idx, expr_idx, s_table_mapping, s_column_mapping,
                   table_counter, column_counter>>
    /\ UNCHANGED <<mapper_vars, batch_vars>>

\* the caller calls extract_and_map_schema again, on any schema; the
\* locals of the call that returned are gone
AnonymizeAgain ==
    /\ schema_pc = "returned"
    /\ parsed' \in Schemas
    /\ stmt_idx' = 0 /\ expr_idx' = 0
    /\ s_table_mapping' = <<>> /\ s_column_mapping' = <<>>
    /\ table_counter' = 0 /\ column_counter' = 0
    /\ mapping_dict' = <<>> /\ dummy_schema' = None
    /\ schema_pc' = "called"
    /\ UNCHANGED <<mapper_vars, batch_vars>>

SchemaNext ==
    \/ AnonymizeBegin
    \/ ScanStatement
    \/ ScanExpression
    \/ AnonymizeReturn
    \/ AnonymizeAgain

SpecSchema == SchemaInit /\ [][SchemaNext]_vars

(***************************************************************************)
(* Reading an output text: the part between SELECT and FROM, and the part  *)
(* after FROM.                                                             *)
(***************************************************************************)
FromLit == <<Space>> \o KwFrom \o <<Space>>
FindSub(text, lit) ==
    LET hits == {i \in 1..Len(text) : MatchAt([lit |-> lit, wb |-> FALSE], text, i, FALSE)}
    IN  IF hits = {} THEN 0 ELSE CHOOSE i \in hits : \A j \in hits : i <= j
SelectPart(text) == Slice(text, Len(KwSelect) + 2, FindSub(text, FromLit) - 1)
FromPart(text) == Slice(text, FindSub(text, FromLit) + Len(FromLit), Len(text))

AllKeys == Keys(table_mapping) \cup Keys(column_mapping)
AllValues == Values(table_mapping) \cup Values(column_mapping)

\* what an identifier of the input is to become under a mapping
MappedIdentifierSql(id, mapping) ==
    IF Upper(id.name) \in Keys(mapping) THEN Get(mapping, Upper(id.name))
    ELSE IdentifierSql(id)

(***************************************************************************)
(* C1. Structural strategy: in the output of map_sql_query on a statement  *)
(* that parses, the table reference carries the mapped value when its      *)
(* upper-cased name is a key of the table mapping, and keeps its original  *)
(* name when it is not.                                                    *)
(***************************************************************************)
C1_TableReferenceMapped ==
    (pc = "structural_done" /\ parse_one(sql_query).ok) =>
        LET p == parse_one(sql_query) IN
        /\ structural_result # None
        /\ FromPart(structural_result) =
              MappedIdentifierSql(p.table.this, table_mapping) \o AliasSql(p.table.alias)

\* a table written in lower case whose upper-cased name is a key was renamed
C1_Witness ==
    /\ pc = "structural_done" /\ parse_one(sql_query).ok
    /\ LET t == parse_one(sql_query).table.this.name IN
       /\ Upper(t) \in Keys(table_mapping) /\ t \notin Keys(table_mapping)
       /\ FromPart(structural_result) = Get(table_mapping, Upper(t))

(***************************************************************************)
(* C2. Structural strategy, qualified column reference T.C: the qualifier  *)
(* is looked up in the table mapping and the column name in the column     *)
(* mapping, each independently of the other, both by their names in the    *)
(* input: T'.C, T.C', T'.C' or T.C.                                        *)
(***************************************************************************)
C2_QualifiedColumnIndependent ==
    (/\ pc = "structural_done" /\ parse_one(sql_query).ok
     /\ parse_one(sql_query).column.table # NoIdentifier) =>
        LET p == parse_one(sql_query) IN
        SelectPart(structural_result) =
            MappedIdentifierSql(p.column.table, table_mapping) \o <<".">>
            \o MappedIdentifierSql(p.column.this, column_mapping)
            \o AliasSql(p.column.alias)

\* only the qualifier is mapped, and a column mapping exists that does not
\* apply to the column: T'.C
C2_Witness ==
    /\ pc = "structural_done" /\ parse_one(sql_query).ok
    /\ LET p == parse_one(sql_query) IN
       /\ p.column.table # NoIdentifier
       /\ Upper(p.column.table.name) \in Keys(table_mapping)
       /\ Upper(p.column.table.name) \notin Keys(column_mapping)
       /\ column_mapping # <<>>
       /\ Upper(p.column.this.name) \notin Keys(column_mapping)
       /\ SelectPart(structural_result) =
             Get(table_mapping, Upper(p.column.table.name)) \o <<".">>
             \o IdentifierSql(p.column.this)

(***************************************************************************)
(* C4. Textual strategy, stated as the claim states it: within one mapping *)
(* (the other one empty), when a key S is a proper part of a key L and the *)
(* input holds a whole-token occurrence of L, the output holds L's         *)
(* replacement.                                                            *)
(***************************************************************************)
IsPartOf(short, long) ==
    /\ Len(short) < Len(long)
    /\ \E i \in 1..(Len(long) - Len(short) + 1) :
          Slice(long, i, i + Len(short) - 1) = short

LongerNameWins(mapping) ==
    \A S \in Keys(mapping), L \in Keys(mapping) :
        (IsPartOf(S, L) /\ Occurs(WordPattern(L), sql_query, TRUE)) =>
            Occurs(WordPattern(Get(mapping, L)), textual_result, FALSE)

C4_LongerNameReplacedByItsOwn ==
    pc = "textual_done" =>
        /\ column_mapping = <<>> => LongerNameWins(table_mapping)
        /\ table_mapping = <<>> => LongerNameWins(column_mapping)

(***************************************************************************)
(* C5. The textual and the structural strategy rename the same identifier  *)
(* occurrences to the same names: on a statement that parses, the output   *)
(* of the textual strategy parses and holds the identifiers of the         *)
(* structurally transformed tree.                                          *)
(***************************************************************************)
NamesOf(tree) == <<tree.column.table.name, tree.column.this.name, tree.table.this.name>>

C5_StrategiesAgree ==
    (pc = "textual_done" /\ parse_one(sql_query).ok) =>
        LET pt == parse_one(textual_result)
            tr == transformed(parse_one(sql_query), table_mapping, column_mapping)
        IN  pt.ok /\ NamesOf(pt) = NamesOf(tr)

(***************************************************************************)
(* C9. Idempotence.  As claimed: when no replacement value equals, case-   *)
(* insensitively, an original key, mapping the output again changes        *)
(* nothing.                                                                *)
(***************************************************************************)
NoValueEqualsKey == \A v \in AllValues : Upper(v) \notin AllKeys

TextualSecondPassIsNoOp ==
    pc = "textual_done" =>
        _fallback_mapping(textual_result, table_mapping, column_mapping) = textual_result
StructuralSecondPassIsNoOp ==
    pc = "structural_done" =>
        map_sql_query(structural_result, table_mapping, column_mapping) = structural_result

\* the claim, read on the textual strategy
C9_IdempotentUnlessValueEqualsKey == NoValueEqualsKey => TextualSecondPassIsNoOp

(***************************************************************************)
(* C9, amended. When, in addition, every key and every replacement value   *)
(* is a plain identifier (word characters only, no reserved word), mapping *)
(* the output again changes nothing, under both strategies.                *)
(***************************************************************************)
IsPlainIdentifier(name) == ParseIdentifier(name) = Identifier(name, FALSE)
PlainNames == \A n \in AllKeys \cup AllValues : IsPlainIdentifier(n)

C9_IdempotentForPlainNames ==
    (PlainNames /\ NoValueEqualsKey) =>
        (TextualSecondPassIsNoOp /\ StructuralSecondPassIsNoOp)

\* a textual run under the precondition that inserted a replacement which
\* holds an original name as a part (AB for A), and a second pass over it
C9_Witness ==
    /\ PlainNames /\ NoValueEqualsKey
    /\ pc = "textual_done"
    /\ textual_result # sql_query
    /\ \E k \in AllKeys, v \in AllValues :
          /\ IsPartOf(k, v)
          /\ Occurs(WordPattern(v), textual_result, FALSE)
    /\ _fallback_mapping(textual_result, table_mapping, column_mapping) = textual_result

(***************************************************************************)
(* C10. Textual strategy ordering: table entries are applied before column *)
(* entries and every entry is matched against the text the earlier         *)
(* substitutions produced.  So a whole-word occurrence of an entry's       *)
(* original name survives in the output only when that entry or a later    *)
(* one inserted it: a token an earlier substitution inserted is            *)
(* substituted again.                                                      *)
(***************************************************************************)
ProcessingOrder == SortedByLenDesc(table_mapping) \o SortedByLenDesc(column_mapping)

C10_EarlierInsertionsAreSubstitutedAgain ==
    pc = "textual_done" =>
        \A k \in 1..Len(ProcessingOrder) :
            (\A j \in k..Len(ProcessingOrder) :
                ~Occurs(WordPattern(ProcessingOrder[k][1]), ProcessingOrder[j][2], TRUE))
            => ~Occurs(WordPattern(ProcessingOrder[k][1]), textual_result, TRUE)

\* a table entry inserted a token that the input did not hold and that is
\* the original name of a column entry; the output holds the column
\* entry's replacement instead
C10_Witness ==
    /\ pc = "textual_done"
    /\ \E i \in DOMAIN table_mapping, j \in DOMAIN column_mapping :
          /\ Occurs(WordPattern(table_mapping[i][1]), sql_query, TRUE)
          /\ Occurs(WordPattern(column_mapping[j][1]), table_mapping[i][2], TRUE)
          /\ ~Occurs(WordPattern(column_mapping[j][1]), sql_query, TRUE)
          /\ ~Occurs(WordPattern(column_mapping[j][1]), column_mapping[j][2], TRUE)
          /\ ~Occurs(WordPattern(table_mapping[i][2]), textual_result, TRUE)
          /\ Occurs(WordPattern(column_mapping[j][2]), textual_result, FALSE)

(***************************************************************************)
(* C6. Batch driver: no failure while handling a row or a query field      *)
(* aborts the batch, and the field whose mapping failed is left empty.     *)
(***************************************************************************)
QueryColumns == {<<"q1", "q1_mapped">>, <<"q2", "q2_mapped">>}
Processed == IF batch_pc = "start" THEN {} ELSE {i \in DOMAIN df : i < idx}

C6_FailuresNeverAbortTheBatch ==
    /\ batch_pc # "raised"
    /\ \A i \in Processed, c \in QueryColumns :
          (/\ truthy(df[i][c[1]])
           /\ run_mapper(driver, mapper_for(driver, df[i].dbid), df[i][c[1]]) = None)
          => df[i][c[2]] = None

(***************************************************************************)
(* C7. After process_bird_csv returns, every row whose source query field  *)
(* is empty has an empty derived field, also when the input already        *)
(* carries the derived columns.                                            *)
(***************************************************************************)
C7_EmptySourceEmptyDerived ==
    batch_pc = "returned" =>
        \A i \in DOMAIN df, c \in QueryColumns :
            df[i][c[1]] = None => df[i][c[2]] = None

(***************************************************************************)
(* C8. For a row whose database identifier has no entry in the persisted   *)
(* mappings, the derived field of each non-empty query field is identical  *)
(* to the query text.                                                      *)
(***************************************************************************)
HasNoEntry(dbid) == Str(dbid) \notin DOMAIN schemas_data

C8_MissingMappingIsIdentity ==
    \A i \in Processed, c \in QueryColumns :
        (HasNoEntry(df[i].dbid) /\ truthy(df[i][c[1]])) => df[i][c[2]] = df[i][c[1]]

(***************************************************************************)
(* C3. Schema anonymizer: scanning the CREATE TABLE statements left to     *)
(* right and their column definitions in declared order, the k-th distinct *)
(* table name is assigned t<k> and the k-th distinct column name c<k>,     *)
(* with one column counter for the whole schema; a name seen before        *)
(* (exact match) keeps its assignment and does not advance the counter.    *)
(***************************************************************************)
\* the table names and the column names the scan has passed, in order
RECURSIVE ColumnDefNames(_, _, _)
ColumnDefNames(exprs, i, upto) ==
    IF i > upto THEN <<>>
    ELSE (IF exprs[i].kind = "ColumnDef" THEN <<exprs[i].name>> ELSE <<>>)
         \o ColumnDefNames(exprs, i + 1, upto)
\* how many expressions of statement i the scan has passed
PassedOf(i) ==
    IF i < stmt_idx THEN Len(parsed[i].expressions)
    ELSE IF i = stmt_idx /\ expr_idx >= 1 THEN expr_idx - 1 ELSE 0
HeadPassed(i) == i < stmt_idx \/ (i = stmt_idx /\ expr_idx >= 1)
RECURSIVE TablesPassed(_)
TablesPassed(i) ==
    IF i > Len(parsed) THEN <<>>
    ELSE (IF parsed[i].kind = "TABLE" /\ HeadPassed(i) THEN <<parsed[i].name>> ELSE <<>>)
         \o TablesPassed(i + 1)
RECURSIVE ColumnsPassed(_)
ColumnsPassed(i) ==
    IF i > Len(parsed) THEN <<>>
    ELSE (IF parsed[i].kind = "TABLE"
          THEN ColumnDefNames(parsed[i].expressions, 1, PassedOf(i)) ELSE <<>>)
         \o ColumnsPassed(i + 1)
\* the names of a sequence, each once, in the order of first occurrence
FirstOccurrences(names) ==
    LET firsts == {i \in DOMAIN names : \A j \in 1..(i - 1) : names[j] # names[i]}
        RECURSIVE Pick(_)
        Pick(i) == IF i > Len(names) THEN <<>>
                   ELSE (IF i \in firsts THEN <<names[i]>> ELSE <<>>) \o Pick(i + 1)
    IN  Pick(1)
NumberedFrom1(names, letter) ==
    [k \in 1..Len(names) |-> <<names[k], <<letter>> \o ToStr(k)>>]

C3_KthDistinctNameGetsK ==
    schema_pc \in {"scan", "returned"} =>
        /\ s_table_mapping = NumberedFrom1(FirstOccurrences(TablesPassed(1)), "t")
        /\ s_column_mapping = NumberedFrom1(FirstOccurrences(ColumnsPassed(1)), "c")

\* two tables, a column name of the first met again in the second, and a
\* third distinct column name after it
C3_Witness ==
    /\ schema_pc = "returned"
    /\ Len(s_table_mapping) = 2
    /\ Len(s_column_mapping) = 3
    /\ Len(ColumnsPassed(1)) = 4
    /\ \E i \in 1..2 : ColumnsPassed(1)[3] = ColumnsPassed(1)[i]
    /\ s_column_mapping[3] = <<ColumnsPassed(1)[4], <<"c","3">>>>

(***************************************************************************)
(* C11. The merged mapping that extract_and_map_schema returns holds every *)
(* discovered table name with its assigned t<N> and every discovered       *)
(* column name with its assigned c<N>, also when a column is named exactly *)
(* like a table.                                                           *)
(***************************************************************************)
HoldsAll(merged, assigned) ==
    \A i \in DOMAIN assigned :
        /\ assigned[i][1] \in Keys(merged)
        /\ Get(merged, assigned[i][1]) = assigned[i][2]

C11_MergedMappingHoldsEveryAssignment ==
    schema_pc = "returned" =>
        /\ HoldsAll(mapping_dict, s_table_mapping)
        /\ HoldsAll(mapping_dict, s_column_mapping)

(***************************************************************************)
(* C12. Counter invariant of the schema anonymizer: at every point of the  *)
(* scan of one call, table_counter is the number of table-mapping entries  *)
(* plus 1 and the table-mapping values are exactly t1..t(table_counter-1), *)
(* no value assigned to two names; likewise column_counter and the column  *)
(* mapping; both counters start at 1 in every call and never decrease      *)
(* during it.                                                              *)
(***************************************************************************)
CounterMatches(counter, mapping, letter) ==
    /\ counter = Len(mapping) + 1
    /\ Values(mapping) = {<<letter>> \o ToStr(k) : k \in 1..(counter - 1)}
    /\ \A i \in DOMAIN mapping, j \in DOMAIN mapping :
          mapping[i][2] = mapping[j][2] => i = j

CountersMatchMappings ==
    schema_pc \in {"scan", "returned"} =>
        /\ CounterMatches(table_counter, s_table_mapping, "t")
        /\ CounterMatches(column_counter, s_column_mapping, "c")

CountersStartAt1 ==
    (schema_pc = "called" /\ schema_pc' = "scan") =>
        (table_counter' = 1 /\ column_counter' = 1)

CountersNeverDecrease ==
    (schema_pc = "scan") =>
        (table_counter' >= table_counter /\ column_counter' >= column_counter)

C12_CountersFollowTheMappings ==
    /\ []CountersMatchMappings
    /\ [][CountersStartAt1 /\ CountersNeverDecrease]_vars

\* mid-scan, after two tables and two distinct columns were assigned and a
\* column name was met a second time without advancing the counter
C12_Witness ==
    /\ schema_pc = "scan"
    /\ table_counter = 3 /\ Len(s_table_mapping) = 2
    /\ column_counter = 3 /\ Len(s_column_mapping) = 2
    /\ Len(ColumnsPassed(1)) = 3

====
